---- MODULE Spec2Model ----
(***************************************************************************)
(* A model of the MRPT index of src/timing/timing_tester/Mrpt.h: the       *)
(* random projection forest (grow, grow_subtree), the voting query (query, *)
(* exact_knn) and the trimming of an autotuned forest                      *)
(* (get_optimal_parameters, subset_trees, delete_extra_trees).             *)
(*                                                                         *)
(* Conventions.  A C++ vector or Eigen vector is a TLA+ sequence; the      *)
(* element the code calls v[i] is At(v, i).  A matrix is the sequence of   *)
(* its columns (split_points) or of its rows (the random matrices).        *)
(* Floating point numbers are integers: the data and the random vectors    *)
(* are integer valued, a split point is stored as TWICE its value (the     *)
(* mean of two projections is then an integer), a recall is counted in     *)
(* units of 0.0001, and a distance is Sqrt of the squared distance.        *)
(*                                                                         *)
(* Spec is the plain index: a forest grown once on a fresh object and      *)
(* queried with k and votes_required.  SpecTune is the autotuned index:    *)
(* grow with test queries, the frontier, trimming by delete_extra_trees    *)
(* and subset_trees, and the query that takes k and votes from the index.  *)
(* SpecFit is the profiling alone (count_elected, fit_times, the frontier) *)
(* over all the fits of the timings, SpecTrim the trimming of a forest of  *)
(* two trees and two levels, and SpecIO save and load, a file being the    *)
(* sequence of the words written to it.  SpecPar is the parallel region of *)
(* grow with its workers interleaved, SpecReuse a second grow on an object *)
(* that holds a forest and a query that counts into a variable of the      *)
(* caller, and SpecAgain delete_extra_trees called more than once.         *)
(***************************************************************************)
EXTENDS Integers, Sequences, FiniteSets, TLC

\* Largest number of data points (columns of X).
MaxSamples == 3
\* Largest k a caller asks for.
MaxK == 3

\* The data points and queries the model draws from (vectors of length dim).
Points == {<<0>>, <<1>>, <<2>>}
\* Largest n_trees and depth grow is called with, and the largest number
\* n_trees * depth of random vectors it draws.
MaxTrees == 2
MaxDepth == 2
MaxPool == 2
\* The values a drawn component of a random vector takes: N(0, 1) on the
\* dense path, 0 or N(0, 1) on the sparse one.
DenseEntries == {-1, 1}
SparseEntries == {0, 1}
\* density, in percent: 100 is the dense path, anything below the sparse one.
Densities == {50, 100}
\* What a read beyond the end of a vector may produce as a projected value.
Garbage == {-9, 9}
\* The content of a split_points slot that was never written.
Uninit == 99
\* The content of an int member the constructor does not initialize.
Indet == -99
\* One unit of recall is 0.0001: a recall of 1.0 is RecallUnit.
RecallUnit == 10000

At(v, i) == v[i + 1]

Pow2(d) == 2 ^ d

Range(v) == {v[j] : j \in 1..Len(v)}

RECURSIVE dot(_, _)
dot(r, x) == IF Len(r) = 0 THEN 0 ELSE Head(r) * Head(x) + dot(Tail(r), Tail(x))

squaredNorm(x, q) == dot([j \in 1..Len(x) |-> x[j] - q[j]], [j \in 1..Len(x) |-> x[j] - q[j]])

\* std::sqrt on the scale of tenths, rounded down.
Sqrt(d) == CHOOSE r \in 0..(10 * d + 1) : r * r <= 100 * d /\ (r + 1) * (r + 1) > 100 * d

----------------------------------------------------------------------------
(* Leaf sizes and leaf offsets.                                            *)

\* count_leaf_sizes with the extra point of an odd count sent to the right
RECURSIVE count_leaf_sizes_right(_, _, _)
count_leaf_sizes_right(n, level, tree_depth) ==
  IF level = tree_depth
    THEN <<n>>
    ELSE count_leaf_sizes_right(n \div 2, level + 1, tree_depth)
           \o count_leaf_sizes_right(n - n \div 2, level + 1, tree_depth)

RECURSIVE count_leaf_sizes(_, _, _)
count_leaf_sizes(n, level, tree_depth) ==
  IF level = tree_depth
    THEN <<n>>
    ELSE count_leaf_sizes(n - n \div 2, level + 1, tree_depth)
           \o count_leaf_sizes(n \div 2, level + 1, tree_depth)

\* count_first_leaf_indices without the running sum
count_first_leaf_indices_sizes(n, depth) == <<0>> \o count_leaf_sizes(n, 0, depth)

count_first_leaf_indices(n, depth) ==
  LET leaf_sizes == count_leaf_sizes(n, 0, depth)
      RECURSIVE fill(_, _)
      fill(indices, i) ==
        IF i = Len(leaf_sizes)
          THEN indices
          ELSE fill(Append(indices, At(indices, i) + At(leaf_sizes, i)), i + 1)
  IN fill(<<0>>, 0)

\* push_back onto the vector the object already holds
count_first_leaf_indices_all(indices, n, depth_max) ==
  indices \o [d \in 1..(depth_max + 1) |-> count_first_leaf_indices(n, d - 1)]

----------------------------------------------------------------------------
(* Random matrices: every outcome of the draws.                            *)

RandomRows(dim, vals) == [1..dim -> vals]

build_sparse_random_matrix(n_row, n_col) == [1..n_row -> RandomRows(n_col, SparseEntries)]

build_dense_random_matrix(n_row, n_col) == [1..n_row -> RandomRows(n_col, DenseEntries)]

----------------------------------------------------------------------------
(* Tree construction.                                                      *)

\* nth_element that leaves the range as it is
nth_element_noop(v, begin, nth, end, key) == {v}

\* std::nth_element: every arrangement of [begin, end) its postcondition allows.
nth_element(v, begin, nth, end, key) ==
  IF nth = end
    THEN {v}
    ELSE LET pos == (begin + 1)..end
             elems == {v[j] : j \in pos}
             perms == {f \in [pos -> elems] : \A a, b \in pos : a # b => f[a] # f[b]}
             ok(f) == /\ \A j \in (begin + 1)..nth : key[f[j]] <= key[f[nth + 1]]
                      /\ \A j \in (nth + 2)..end : key[f[j]] >= key[f[nth + 1]]
         IN {[j \in 1..Len(v) |-> IF j \in pos THEN f[j] ELSE v[j]] : f \in {g \in perms : ok(g)}}

\* std::max_element: the first position of [begin, end) holding a largest key; end when empty.
max_element(v, begin, end, key) ==
  IF begin = end
    THEN end
    ELSE CHOOSE it \in begin..(end - 1) :
           /\ \A j \in begin..(end - 1) : key[At(v, j)] <= key[At(v, it)]
           /\ \A j \in begin..(it - 1) : key[At(v, j)] < key[At(v, it)]

\* tree_projections(tree_level, *it): a read at the end of the vector yields anything.
Deref(v, it, key) == IF it < Len(v) THEN {key[At(v, it)]} ELSE Garbage

\* auto mid = end - n/2
Mid(begin, end) == end - (end - begin) \div 2

\* SplitValues without the mean of the even case: the value at mid alone
SplitValuesNoMean(v, begin, end, key) ==
  LET n == end - begin
      mid == Mid(begin, end)
  IN IF n % 2 = 1
       THEN {2 * key[At(v, mid - 1)]}
       ELSE {2 * a : a \in Deref(v, mid, key)}

\* The value stored in split_points(i, n_tree), doubled, after nth_element.
SplitValues(v, begin, end, key) ==
  LET n == end - begin
      mid == Mid(begin, end)
  IN IF n % 2 = 1
       THEN {2 * key[At(v, mid - 1)]}
       ELSE LET left_it == max_element(v, begin, mid, key)
            IN IF left_it = mid
                 THEN {2 * a : a \in Deref(v, mid, key)}
                 ELSE {a + key[At(v, left_it)] : a \in Deref(v, mid, key)}

\* A tree under construction: its index vector (indices), its column of
\* split_points (split) and, for every node i the recursion has entered, the
\* range <<begin, end>> it was entered with (ranges).
RECURSIVE grow_subtree(_, _, _, _, _, _, _)
grow_subtree(tree, begin, end, tree_level, i, tree_projections, depth) ==
  LET n == end - begin
      idx_left == 2 * i + 1
      idx_right == idx_left + 1
      mid == Mid(begin, end)
      key == At(tree_projections, tree_level)
      entered == [tree EXCEPT !.ranges[i + 1] = <<begin, end>>]
  IN IF tree_level = depth
       THEN {entered}
       ELSE UNION {
              UNION {
                UNION { grow_subtree(left, mid, end, tree_level + 1, idx_right, tree_projections, depth) :
                        left \in grow_subtree([entered EXCEPT !.indices = v, !.split[i + 1] = s],
                                              begin, mid, tree_level + 1, idx_left,
                                              tree_projections, depth) } :
                s \in SplitValues(v, begin, end, key) } :
              v \in nth_element(tree.indices, begin, begin + n \div 2, end, key) }

\* tree_projections = random_matrix.middleRows(n_tree * depth, depth) * X
TreeProjections(random_matrix, n_tree, depth, data) ==
  [level \in 1..depth |->
     [p \in 0..(Len(data) - 1) |-> dot(At(random_matrix, n_tree * depth + level - 1), At(data, p))]]

\* std::iota(begin, end, 0) over a vector of n elements
RECURSIVE iota(_)
iota(n) == IF n = 0 THEN <<>> ELSE Append(iota(n - 1), n - 1)

\* A column of the freshly allocated MatrixXf(n_array, n_trees)
RECURSIVE NewColumn(_)
NewColumn(n_array) == IF n_array = 0 THEN <<>> ELSE Append(NewColumn(n_array - 1), Uninit)

\* No node entered yet.
RECURSIVE NoRanges(_)
NoRanges(n_array) == IF n_array = 0 THEN <<>> ELSE Append(NoRanges(n_array - 1), <<>>)

\* One iteration of the loop over n_tree: every tree it can build.
GrowTree(random_matrix, n_tree, depth, n_array, data) ==
  grow_subtree([indices |-> iota(Len(data)),
                split |-> NewColumn(n_array),
                ranges |-> NoRanges(n_array)],
               0, Len(data), 0, 0,
               TreeProjections(random_matrix, n_tree, depth, data), depth)

\* struct Parameters, as its member initializers leave it
Parameters ==
  [n_trees |-> 0, depth |-> 0, votes |-> 0, estimated_qtime |-> 0, estimated_recall |-> 0]

\* The object the constructor leaves: the members with an initializer hold it,
\* the containers are empty, and depth_min, votes_max, k and n_test hold
\* whatever was in memory.  node_ranges is no member: it records, for every
\* tree, the ranges grow_subtree was called with.
Mrpt ==
  [n_trees |-> 0, depth |-> 0, density |-> 100, n_pool |-> 0, n_array |-> 0, votes |-> 0,
   split_points |-> <<>>, tree_leaves |-> <<>>, node_ranges |-> <<>>,
   dense_random_matrix |-> <<>>, sparse_random_matrix |-> <<>>,
   leaf_first_indices_all |-> <<>>, leaf_first_indices |-> <<>>,
   Q |-> <<>>, depth_min |-> Indet, votes_max |-> Indet, k |-> Indet, n_test |-> Indet,
   recalls |-> <<>>, cs_sizes |-> <<>>, pars |-> <<>>, opt_pars |-> <<>>,
   beta_projection |-> <<0, 0>>, beta_voting |-> <<>>, beta_exact |-> <<0, 0>>,
   recall_level |-> -RecallUnit, optimal_parameters |-> Parameters]

\* grow(n_trees_, depth_, density_, seed): every forest it can leave in the object.
grow(self, data, n_trees_, depth_, density_) ==
  LET n_pool == n_trees_ * depth_
      n_array == Pow2(depth_ + 1)
      dim == Len(At(data, 0))
      matrices == IF density_ < 100
                    THEN build_sparse_random_matrix(n_pool, dim)
                    ELSE build_dense_random_matrix(n_pool, dim)
      all == count_first_leaf_indices_all(self.leaf_first_indices_all, Len(data), depth_)
      \* the loop over n_tree: the trees are built independently of each other
      forests(rm) ==
        LET RECURSIVE loop(_)
            loop(n_tree) ==
              IF n_tree = 0
                THEN {<<>>}
                ELSE LET built == GrowTree(rm, n_tree - 1, depth_, n_array, data)
                     IN {Append(f, t) : f \in loop(n_tree - 1), t \in built}
        IN loop(n_trees_)
  IN UNION {
       { [self EXCEPT
            !.n_trees = n_trees_, !.depth = depth_, !.density = density_,
            !.n_pool = n_pool, !.n_array = n_array,
            !.sparse_random_matrix = IF density_ < 100 THEN rm ELSE @,
            !.dense_random_matrix = IF density_ < 100 THEN @ ELSE rm,
            !.split_points = [t \in 1..n_trees_ |-> f[t].split],
            !.tree_leaves = [t \in 1..n_trees_ |-> f[t].indices],
            !.node_ranges = [t \in 1..n_trees_ |-> f[t].ranges],
            !.leaf_first_indices_all = all,
            !.leaf_first_indices = At(all, depth_)] : f \in forests(rm) } :
       rm \in matrices }

----------------------------------------------------------------------------
(* The query.                                                              *)

\* projected_query = random_matrix * q, with the matrix the density selects
ProjectedQuery(self, q) ==
  LET random_matrix == IF self.density < 100 THEN self.sparse_random_matrix
                                             ELSE self.dense_random_matrix
  IN [j \in 1..self.n_pool |-> dot(random_matrix[j], q)]

\* The routing comparison with < in place of <=
GoesLeftStrict(projected, split_point) == 2 * projected < split_point

\* The routing comparison: projected_query(j) <= split_point (the split is stored doubled).
GoesLeft(projected, split_point) == 2 * projected <= split_point

\* The loop over d for one tree: the leaf the query is routed to.
RECURSIVE Descend(_, _, _, _, _)
Descend(self, projected_query, n_tree, d, idx_tree) ==
  IF d = self.depth
    THEN idx_tree - Pow2(self.depth) + 1
    ELSE LET j == n_tree * self.depth + d
             idx_left == 2 * idx_tree + 1
             idx_right == idx_left + 1
             split_point == At(At(self.split_points, n_tree), idx_tree)
         IN Descend(self, projected_query, n_tree, d + 1,
                    IF GoesLeft(At(projected_query, j), split_point) THEN idx_left ELSE idx_right)

FoundLeaves(self, projected_query) ==
  [t \in 1..self.n_trees |-> Descend(self, projected_query, t - 1, 0, 0)]

\* The points of the routed leaves in the order the vote loop visits them.
RECURSIVE Visits(_, _, _)
Visits(self, found_leaves, n_tree) ==
  IF n_tree = self.n_trees
    THEN <<>>
    ELSE LET leaf_begin == At(self.leaf_first_indices, At(found_leaves, n_tree))
             leaf_end == At(self.leaf_first_indices, At(found_leaves, n_tree) + 1)
         IN SubSeq(At(self.tree_leaves, n_tree), leaf_begin + 1, leaf_end)
              \o Visits(self, found_leaves, n_tree + 1)

\* The vote test with >= in place of ==
CrossesAtLeast(v, votes_required) == v >= votes_required

\* if (++votes(idx) == votes_required) elected(n_elected++) = idx
Crosses(v, votes_required) == v = votes_required

\* VectorXi::Zero(n)
RECURSIVE Zero(_)
Zero(n) == IF n = 0 THEN <<>> ELSE Append(Zero(n - 1), 0)

RECURSIVE CountVotes(_, _, _, _)
CountVotes(visits, votes, elected, votes_required) ==
  IF visits = <<>>
    THEN [votes |-> votes, elected |-> elected]
    ELSE LET idx == Head(visits)
             v == At(votes, idx) + 1
         IN CountVotes(Tail(visits), [votes EXCEPT ![idx + 1] = v],
                       IF Crosses(v, votes_required) THEN Append(elected, idx) ELSE elected,
                       votes_required)

\* The permutations of 0 .. n-1 as sequences.
Arrangements(n) == {f \in [1..n -> 0..(n - 1)] : \A a, b \in 1..n : a # b => f[a] # f[b]}

\* partial_sort that orders nothing
partial_sort_any(n, n_to_sort, distances) == Arrangements(n)

\* std::partial_sort of idx = 0 .. n-1 by distances: every arrangement its
\* postcondition allows (the first n_to_sort sorted, nothing behind them smaller).
partial_sort(n, n_to_sort, distances) ==
  {idx \in Arrangements(n) :
     /\ \A i \in 1..(n_to_sort - 1) : distances[idx[i] + 1] <= distances[idx[i + 1] + 1]
     /\ \A i \in 1..n_to_sort : \A j \in (n_to_sort + 1)..n :
          distances[idx[i] + 1] <= distances[idx[j] + 1]}

\* distances.minCoeff(&index): a position holding the smallest distance
minCoeff(distances) ==
  {index \in 0..(Len(distances) - 1) :
     \A j \in 0..(Len(distances) - 1) : At(distances, index) <= At(distances, j)}

\* n_to_sort one short of k
NToSortShort(n_elected, k) == IF n_elected > k THEN k - 1 ELSE n_elected

\* int n_to_sort = n_elected > k ? k : n_elected
NToSort(n_elected, k) == IF n_elected > k THEN k ELSE n_elected

\* The value of the padding entries.
Sentinel == -1

\* exact_knn: the buffers out and out_distances it can leave.
exact_knn(data, q, k, indices, n_elected) ==
  IF n_elected = 0
    THEN {[out |-> [i \in 1..k |-> Sentinel], out_distances |-> [i \in 1..k |-> Sentinel]]}
    ELSE LET distances == [i \in 1..n_elected |-> squaredNorm(At(data, indices[i]), q)]
         IN IF k = 1
              THEN {[out |-> <<At(indices, index)>>,
                     out_distances |-> <<Sqrt(At(distances, index))>>] :
                    index \in minCoeff(distances)}
              ELSE {[out |-> [i \in 1..k |->
                               IF i - 1 < n_elected THEN At(indices, idx[i]) ELSE Sentinel],
                     out_distances |-> [i \in 1..k |->
                               IF i - 1 < n_elected THEN Sqrt(At(distances, idx[i])) ELSE Sentinel]] :
                    idx \in partial_sort(n_elected, NToSort(n_elected, k), distances)}

\* query(q, k, votes_required, out, ..., out_distances): what the call can leave.
query(self, data, q, k, votes_required) ==
  LET projected_query == ProjectedQuery(self, q)
      found_leaves == FoundLeaves(self, projected_query)
      counted == CountVotes(Visits(self, found_leaves, 0), Zero(Len(data)), <<>>, votes_required)
      n_elected == Len(counted.elected)
  IN {[op |-> "query", q |-> q, k |-> k, votes_required |-> votes_required,
       found_leaves |-> found_leaves, votes |-> counted.votes,
       elected |-> counted.elected, n_elected |-> n_elected,
       out |-> r.out, out_distances |-> r.out_distances] :
      r \in exact_knn(data, q, k, counted.elected, n_elected)}

----------------------------------------------------------------------------
(* Autotuning: grow with test queries, the tallies of count_elected, the   *)
(* estimated query times of fit_times and the frontier.  A recall is kept  *)
(* in units of 0.0001; cs_sizes keeps the sum over the test queries, that  *)
(* is n_test times the mean, and an estimated query time is kept on the    *)
(* same scale, n_test times the time the code computes.                    *)

\* std::sort of a vector of ints
RECURSIVE sort(_)
sort(v) ==
  IF v = <<>>
    THEN <<>>
    ELSE LET m == CHOOSE j \in 1..Len(v) : \A i \in 1..Len(v) : v[j] <= v[i]
         IN <<v[m]>> \o sort(SubSeq(v, 1, m - 1) \o SubSeq(v, m + 1, Len(v)))

\* compute_exact: for every test query the sorted true k nearest neighbours.
compute_exact(self, data) ==
  LET n == Len(data)
      RECURSIVE loop(_)
      loop(i) ==
        IF i = 0
          THEN {<<>>}
          ELSE {Append(e, sort(r.out)) :
                  e \in loop(i - 1),
                  r \in exact_knn(data, At(self.Q, i - 1), self.k, iota(n), n)}
  IN loop(self.n_test)

\* The routing loop of count_elected and vote: the leaf at depth depth_crnt.
RECURSIVE Route(_, _, _, _, _, _)
Route(self, projected_query, n_tree, d, idx_tree, depth_crnt) ==
  IF d = depth_crnt
    THEN idx_tree - Pow2(depth_crnt) + 1
    ELSE LET j == n_tree * self.depth + d
             idx_left == 2 * idx_tree + 1
             idx_right == idx_left + 1
             split_point == At(At(self.split_points, n_tree), idx_tree)
         IN Route(self, projected_query, n_tree, d + 1,
                  IF GoesLeft(At(projected_query, j), split_point) THEN idx_left ELSE idx_right,
                  depth_crnt)

\* A tally of the visits: every visited point is counted in the row of one
\* vote, whatever the number of its votes (not the code's).
RECURSIVE TallyLeafVisits(_, _, _, _, _, _)
TallyLeafVisits(visits, votes, recall, candidate_set_size, exact, votes_max) ==
  IF visits = <<>>
    THEN [votes |-> votes, recall |-> recall, candidate_set_size |-> candidate_set_size]
    ELSE LET idx == Head(visits)
             found == \E j \in 1..Len(exact) : exact[j] = idx
         IN TallyLeafVisits(Tail(visits), [votes EXCEPT ![idx + 1] = @ + 1],
                            IF found THEN [recall EXCEPT ![1] = @ + 1] ELSE recall,
                            [candidate_set_size EXCEPT ![1] = @ + 1],
                            exact, votes_max)

\* The loop over the points of one leaf in count_elected.
RECURSIVE TallyLeaf(_, _, _, _, _, _)
TallyLeaf(visits, votes, recall, candidate_set_size, exact, votes_max) ==
  IF visits = <<>>
    THEN [votes |-> votes, recall |-> recall, candidate_set_size |-> candidate_set_size]
    ELSE LET idx == Head(visits)
             v == At(votes, idx) + 1
             found == \E j \in 1..Len(exact) : exact[j] = idx
         IN TallyLeaf(Tail(visits), [votes EXCEPT ![idx + 1] = v],
                      IF v <= votes_max /\ found THEN [recall EXCEPT ![v] = @ + 1] ELSE recall,
                      IF v <= votes_max
                        THEN [candidate_set_size EXCEPT ![v] = @ + 1]
                        ELSE candidate_set_size,
                      exact, votes_max)

\* count_elected: per depth the matrices recall and candidate_set_size, each
\* the sequence over the trees of its columns over the vote thresholds.
count_elected(self, data, q, exact, votes_max, n_depths) ==
  LET projected_query == ProjectedQuery(self, q)
      depth_min == self.depth - n_depths + 1
      RECURSIVE trees(_, _, _, _, _)
      trees(depth_crnt, n_tree, votes, recall, candidate_set_size) ==
        IF n_tree = self.n_trees
          THEN [recall |-> <<>>, candidate_set_size |-> <<>>]
          ELSE LET leaf_first_indices == At(self.leaf_first_indices_all, depth_crnt)
                   found_leaf == Route(self, projected_query, n_tree, 0, 0, depth_crnt)
                   leaf_begin == At(leaf_first_indices, found_leaf)
                   leaf_end == At(leaf_first_indices, found_leaf + 1)
                   col == TallyLeaf(SubSeq(At(self.tree_leaves, n_tree), leaf_begin + 1, leaf_end),
                                    votes, recall, candidate_set_size, exact, votes_max)
                   rest == trees(depth_crnt, n_tree + 1, col.votes, col.recall,
                                 col.candidate_set_size)
               IN [recall |-> <<col.recall>> \o rest.recall,
                   candidate_set_size |-> <<col.candidate_set_size>> \o rest.candidate_set_size]
      at(depth_crnt) == trees(depth_crnt, 0, Zero(Len(data)), Zero(votes_max), Zero(votes_max))
  IN [recalls |-> [i \in 1..n_depths |-> at(depth_min + i - 1).recall],
      cs_sizes |-> [i \in 1..n_depths |-> at(depth_min + i - 1).candidate_set_size]]

\* get_recall(tree, depth, v)
get_recall(self, tree, depth, v) == At(At(At(self.recalls, depth - self.depth_min), tree - 1), v - 1)

\* get_candidate_set_size(tree, depth, v), times n_test
get_candidate_set_size(self, tree, depth, v) ==
  At(At(At(self.cs_sizes, depth - self.depth_min), tree - 1), v - 1)

\* predict_theil_sen(x, beta) with beta = <<intercept, slope>>
predict_theil_sen(x, beta) == beta[1] + beta[2] * x

get_projection_time(self, n_trees, depth, v) ==
  predict_theil_sen(n_trees * depth, self.beta_projection)

\* beta_voting[depth - depth_min] maps the tested vote thresholds 1, 2, ... to their fits
get_voting_time(self, n_trees, depth, v) ==
  LET beta == At(self.beta_voting, depth - self.depth_min)
  IN IF v <= 0 \/ Len(beta) = 0
       THEN 0
       ELSE IF \E b \in 1..Len(beta) : v <= b
              THEN predict_theil_sen(n_trees, beta[CHOOSE b \in 1..Len(beta) :
                                                     v <= b /\ \A c \in 1..(b - 1) : ~(v <= c)])
              ELSE predict_theil_sen(n_trees, beta[Len(beta)])

\* get_exact_time on the scale of n_test
get_exact_time(self, n_trees, depth, v) ==
  self.n_test * self.beta_exact[1]
    + self.beta_exact[2] * get_candidate_set_size(self, n_trees, depth, v)

\* get_query_time on the scale of n_test
get_query_time(self, tree, depth, v) ==
  self.n_test * (get_projection_time(self, tree, depth, v) + get_voting_time(self, tree, depth, v))
    + get_exact_time(self, tree, depth, v)

is_faster(par1, par2) == par1.estimated_qtime < par2.estimated_qtime

\* std::set<Parameters, is_faster>::insert on the set kept as the sequence of its
\* elements in container order: an element equivalent to par keeps par out.
insert(set, par) ==
  IF \E i \in 1..Len(set) : ~is_faster(set[i], par) /\ ~is_faster(par, set[i])
    THEN set
    ELSE LET before == Cardinality({i \in 1..Len(set) : is_faster(set[i], par)})
         IN SubSeq(set, 1, before) \o <<par>> \o SubSeq(set, before + 1, Len(set))

\* The loops of fit_times with v running to votes_max whatever t is (not the
\* code's: the code stops v at min(t, votes_max)).
EnumeratedParsAllVotes(self) ==
  LET RECURSIVE step(_, _, _, _)
      step(pars, d, t, v) ==
        IF d > self.depth
          THEN pars
          ELSE IF t > self.n_trees
                 THEN step(pars, d + 1, 1, 1)
                 ELSE IF v > self.votes_max
                        THEN step(pars, d, t + 1, 1)
                        ELSE step(insert(pars, [n_trees |-> t, depth |-> d, votes |-> v,
                                                estimated_qtime |-> get_query_time(self, t, d, v),
                                                estimated_recall |-> get_recall(self, t, d, v)]),
                                  d, t, v + 1)
  IN step(<<>>, self.depth_min, 1, 1)

\* The loops over d, t and v of fit_times that fill pars.
EnumeratedPars(self) ==
  LET RECURSIVE step(_, _, _, _)
      step(pars, d, t, v) ==
        IF d > self.depth
          THEN pars
          ELSE IF t > self.n_trees
                 THEN step(pars, d + 1, 1, 1)
                 ELSE IF v > (IF self.votes_max < t THEN self.votes_max ELSE t)
                        THEN step(pars, d, t + 1, 1)
                        ELSE step(insert(pars, [n_trees |-> t, depth |-> d, votes |-> v,
                                                estimated_qtime |-> get_query_time(self, t, d, v),
                                                estimated_recall |-> get_recall(self, t, d, v)]),
                                  d, t, v + 1)
  IN step(<<>>, self.depth_min, 1, 1)

\* A frontier loop without the comparison with best_recall: every record of
\* pars is accepted (not the code's).
FrontierAll(pars, opt_pars, best_recall) == opt_pars \o pars

\* The loop over pars that computes the frontier of query times and recalls.
RECURSIVE Frontier(_, _, _)
Frontier(pars, opt_pars, best_recall) ==
  IF pars = <<>>
    THEN opt_pars
    ELSE IF Head(pars).estimated_recall > best_recall
           THEN Frontier(Tail(pars), insert(opt_pars, Head(pars)), Head(pars).estimated_recall)
           ELSE Frontier(Tail(pars), opt_pars, best_recall)

\* fit_times: times are the fits of the measured times, bump is the 0.0001 or
\* 0.0002 added to the estimated recall of the first element of pars.
fit_times(self, times, bump) ==
  LET fitted == [self EXCEPT !.beta_projection = times.projection,
                             !.beta_voting = times.voting,
                             !.beta_exact = times.exact]
      pars == EnumeratedPars(fitted)
      bumped == [pars EXCEPT ![1].estimated_recall = @ + bump]
  IN [fitted EXCEPT !.pars = bumped, !.opt_pars = Frontier(bumped, <<>>, -RecallUnit)]

\* grow(Q_, k_, trees_max, depth_min_, depth_max, votes_max_, density, seed)
grow_Q(self, data, Q_, k_, trees_max, depth_min_, depth_max, votes_max_, density_, times, bump) ==
  LET n_test == Len(Q_)
      n_depths == depth_max - depth_min_ + 1
      entered == [self EXCEPT !.Q = Q_, !.depth_min = depth_min_, !.votes_max = votes_max_,
                              !.k = k_, !.n_test = n_test]
      counted(g, exact) ==
        LET RECURSIVE sum(_, _, _, _, _)
            sum(field, i, d, t, v) ==
              IF i = n_test
                THEN 0
                ELSE count_elected(g, data, At(Q_, i), At(exact, i), votes_max_, n_depths)[field][d][t][v]
                       + sum(field, i + 1, d, t, v)
        IN [g EXCEPT
              !.recalls = [d \in 1..n_depths |-> [t \in 1..trees_max |-> [v \in 1..votes_max_ |->
                             (sum("recalls", 0, d, t, v) * RecallUnit) \div (k_ * n_test)]]],
              !.cs_sizes = [d \in 1..n_depths |-> [t \in 1..trees_max |-> [v \in 1..votes_max_ |->
                             sum("cs_sizes", 0, d, t, v)]]]]
  IN UNION { {fit_times(counted(g, exact), times, bump) : exact \in compute_exact(g, data)} :
             g \in grow(entered, data, trees_max, depth_max, density_) }

\* get_optimal_parameters that keeps the last qualifying element
get_optimal_parameters_last(self, target_recall) ==
  LET qualifying == {i \in 1..Len(self.opt_pars) :
                       self.opt_pars[i].estimated_recall > target_recall - 1}
  IN IF qualifying = {}
       THEN Parameters
       ELSE self.opt_pars[CHOOSE i \in qualifying : \A j \in qualifying : j <= i]

\* get_optimal_parameters(target_recall)
get_optimal_parameters(self, target_recall) ==
  LET tr == target_recall - 1
      RECURSIVE loop(_)
      loop(opt_pars) ==
        IF opt_pars = <<>>
          THEN Parameters
          ELSE IF Head(opt_pars).estimated_recall > tr THEN Head(opt_pars) ELSE loop(Tail(opt_pars))
  IN loop(self.opt_pars)

\* The first n_trees * depth rows of random_matrix, as if the parent had been
\* grown with depth levels (not the code's: the code strides over depth_max).
TrimRowsPacked(random_matrix, n_trees, depth, depth_max) ==
  [j \in 1..(n_trees * depth) |-> At(random_matrix, j - 1)]

\* middleRows(n_tree * depth, depth) = random_matrix.middleRows(n_tree * depth_max, depth)
TrimRows(random_matrix, n_trees, depth, depth_max) ==
  [j \in 1..(n_trees * depth) |->
     At(random_matrix, ((j - 1) \div depth) * depth_max + ((j - 1) % depth))]

\* split_points.topLeftCorner(n_array, n_trees), and the same corner of node_ranges
TopLeft(columns, n_array, n_trees) ==
  [t \in 1..n_trees |-> SubSeq(columns[t], 1, n_array)]

\* delete_extra_trees(target_recall)
delete_extra_trees(self, target_recall) ==
  LET optimal_parameters == get_optimal_parameters(self, target_recall)
      entered == [self EXCEPT !.recall_level = target_recall,
                              !.optimal_parameters = optimal_parameters]
      depth_max == self.depth
      n_trees == optimal_parameters.n_trees
      depth == optimal_parameters.depth
      n_array == Pow2(depth + 1)
  IN IF optimal_parameters.n_trees = 0
       THEN entered
       ELSE [entered EXCEPT
               !.n_trees = n_trees, !.depth = depth, !.votes = optimal_parameters.votes,
               !.n_pool = depth * n_trees, !.n_array = n_array,
               !.tree_leaves = SubSeq(@, 1, n_trees),
               !.split_points = TopLeft(@, n_array, n_trees),
               !.node_ranges = TopLeft(@, n_array, n_trees),
               !.leaf_first_indices = At(self.leaf_first_indices_all, depth),
               !.sparse_random_matrix =
                  IF self.density < 100 THEN TrimRows(@, n_trees, depth, depth_max) ELSE @,
               !.dense_random_matrix =
                  IF self.density < 100 THEN @ ELSE TrimRows(@, n_trees, depth, depth_max)]

\* subset_trees(target_recall, index2): the object index2 becomes
subset_trees(self, target_recall, index2) ==
  LET optimal_parameters == get_optimal_parameters(self, target_recall)
      entered == [index2 EXCEPT !.recall_level = target_recall,
                                !.optimal_parameters = optimal_parameters]
      depth_max == self.depth
      n_trees == optimal_parameters.n_trees
      depth == optimal_parameters.depth
      n_array == Pow2(depth + 1)
  IN IF optimal_parameters.n_trees = 0
       THEN entered
       ELSE [entered EXCEPT
               !.n_trees = n_trees, !.depth = depth, !.votes = optimal_parameters.votes,
               !.n_pool = depth * n_trees, !.n_array = n_array,
               !.tree_leaves = SubSeq(self.tree_leaves, 1, n_trees),
               !.leaf_first_indices_all = self.leaf_first_indices_all,
               !.density = self.density,
               !.k = self.k,
               !.split_points = TopLeft(self.split_points, n_array, n_trees),
               !.node_ranges = TopLeft(self.node_ranges, n_array, n_trees),
               !.leaf_first_indices = At(self.leaf_first_indices_all, depth),
               !.sparse_random_matrix =
                  IF self.density < 100
                    THEN TrimRows(self.sparse_random_matrix, n_trees, depth, depth_max) ELSE @,
               !.dense_random_matrix =
                  IF self.density < 100
                    THEN @ ELSE TrimRows(self.dense_random_matrix, n_trees, depth, depth_max)]

\* The values an int that was never initialized may hold.
IndetInts == {-1, 1, 5}

\* query(q, out, ...) of an autotuned index, called with a buffer out of size
\* buffer: what the call can leave in the buffer, and whether it wrote past it.
autotuned_query(self, data, q, buffer) ==
  IF self.recall_level < 0
    THEN {[out |-> [i \in 1..buffer |-> Uninit], overrun |-> FALSE, n_elected |-> 0]}
    ELSE UNION { {[out |-> [i \in 1..buffer |-> IF i <= Len(r.out) THEN r.out[i] ELSE Uninit],
                   overrun |-> Len(r.out) > buffer,
                   n_elected |-> r.n_elected] :
                  r \in query(self, data, q, k, self.votes)} :
                 k \in IF self.k = Indet THEN IndetInts ELSE {self.k} }

----------------------------------------------------------------------------
VARIABLES X, index, index2, call

vars == <<X, index, index2, call>>

Datasets == UNION {[1..n -> Points] : n \in 1..MaxSamples}

Init ==
  /\ X \in Datasets
  /\ index = Mrpt
  /\ index2 = Mrpt
  /\ call = [op |-> "Mrpt"]

Grow ==
  /\ index.n_trees = 0
  /\ call.op # "query"
  /\ \E n_trees_ \in 1..MaxTrees, depth_ \in 0..MaxDepth, density_ \in Densities :
       /\ n_trees_ * depth_ <= MaxPool
       /\ index' \in grow(index, X, n_trees_, depth_, density_)
       /\ call' = [op |-> "grow"]
  /\ UNCHANGED <<X, index2>>

\* The caller allocates the output buffers, calls query and reads them.
Query ==
  /\ call.op # "query"
  /\ \E q \in Points, k \in 1..MaxK, votes_required \in 0..index.n_trees :
       call' \in query(index, X, q, k, votes_required)
  /\ UNCHANGED <<X, index, index2>>

\* The caller's buffers go out of scope (the body of the loop over the test queries ends).
Release ==
  /\ call.op = "query"
  /\ call' = [op |-> "release"]
  /\ UNCHANGED <<X, index, index2>>

Next == Grow \/ Query \/ Release

Spec == Init /\ [][Next]_vars

----------------------------------------------------------------------------
(* The forest after grow, read back from the object.                       *)

Trees == 1..index.n_trees

n_samples == Len(X)

InternalNodes == 0..(Pow2(index.depth) - 2)

\* The level of node i: the root is at level 0.
Level(i) == CHOOSE d \in 0..index.depth : Pow2(d) - 1 <= i /\ i < Pow2(d + 1) - 1

NodeBegin(t, i) == At(index.node_ranges[t], i)[1]

NodeEnd(t, i) == At(index.node_ranges[t], i)[2]

NodeSize(t, i) == NodeEnd(t, i) - NodeBegin(t, i)

\* The points at the positions of node i of tree t.
NodePoints(t, i) == {At(index.tree_leaves[t], j) : j \in NodeBegin(t, i)..(NodeEnd(t, i) - 1)}

\* Node of the l-th leaf.
LeafNode(l) == Pow2(index.depth) - 1 + l

\* The points of the slab of leaf l in tree t.
Slab(t, l) ==
  {At(index.tree_leaves[t], j) :
     j \in At(index.leaf_first_indices, l)..(At(index.leaf_first_indices, l + 1) - 1)}

\* The projected coordinate of point p at the given level of tree t.
Projected(t, level, p) ==
  dot(At(IF index.density < 100 THEN index.sparse_random_matrix ELSE index.dense_random_matrix,
         (t - 1) * index.depth + level),
      At(X, p))

\* Twice the split value of node i of tree t.
SplitPoint(t, i) == At(index.split_points[t], i)

Grown == index.n_trees > 0

----------------------------------------------------------------------------
(* C3: after grow every internal node holding m points passes ceil(m/2) of *)
(* them to its left child 2i+1 and floor(m/2) to its right child 2i+2, so  *)
(* the leaf sizes are those of count_leaf_sizes in every tree, and         *)
(* n_samples / 2^depth when 2^depth divides n_samples.                     *)
C3_MedianShape ==
  Grown =>
    \A t \in Trees :
      /\ \A i \in InternalNodes :
           /\ NodeBegin(t, 2 * i + 1) = NodeBegin(t, i)
           /\ NodeEnd(t, 2 * i + 1) = NodeBegin(t, 2 * i + 2)
           /\ NodeEnd(t, 2 * i + 2) = NodeEnd(t, i)
           /\ NodeSize(t, 2 * i + 1) = (NodeSize(t, i) + 1) \div 2
           /\ NodeSize(t, 2 * i + 2) = NodeSize(t, i) \div 2
      /\ NodeSize(t, 0) = n_samples
      /\ [l \in 1..Pow2(index.depth) |-> NodeSize(t, LeafNode(l - 1))]
           = count_leaf_sizes(n_samples, 0, index.depth)
      /\ n_samples % Pow2(index.depth) = 0 =>
           \A l \in 0..(Pow2(index.depth) - 1) :
             NodeSize(t, LeafNode(l)) = n_samples \div Pow2(index.depth)

\* A tree of depth 2 over three points: the root is odd, its left child even.
C3_Witness == Grown /\ index.depth = 2 /\ n_samples = 3

(* C4: after grow every tree_leaves[t] is a permutation of 0 .. n_samples-1 *)
(* and leaf_first_indices is the non-decreasing prefix-sum array of length *)
(* 2^depth + 1 from 0 to n_samples whose slab l is the range the recursive *)
(* split gave to the l-th leaf.                                            *)
C4_LeafSlabs ==
  Grown =>
    /\ Len(index.leaf_first_indices) = Pow2(index.depth) + 1
    /\ At(index.leaf_first_indices, 0) = 0
    /\ At(index.leaf_first_indices, Pow2(index.depth)) = n_samples
    /\ \A l \in 0..(Pow2(index.depth) - 1) :
         At(index.leaf_first_indices, l) <= At(index.leaf_first_indices, l + 1)
    /\ \A t \in Trees :
         /\ Len(index.tree_leaves[t]) = n_samples
         /\ Range(index.tree_leaves[t]) = 0..(n_samples - 1)
         /\ \A l \in 0..(Pow2(index.depth) - 1) :
              /\ NodeBegin(t, LeafNode(l)) = At(index.leaf_first_indices, l)
              /\ NodeEnd(t, LeafNode(l)) = At(index.leaf_first_indices, l + 1)
              /\ Slab(t, l) = NodePoints(t, LeafNode(l))

\* Two trees of depth 1 over three points: leaves of sizes 2 and 1.
C4_Witness == Grown /\ index.n_trees = 2 /\ index.depth = 1 /\ n_samples = 3

(* C5, as amended: at every internal node i of every tree, with s its split *)
(* value and d its level, every point of the left subtree has projected    *)
(* coordinate <= s and every point of the right subtree >= s; the latter   *)
(* is strict when the node holds an odd number of points whose projected   *)
(* coordinates are pairwise distinct.                                      *)
DistinctProjections(t, i) ==
  \A p1, p2 \in NodePoints(t, i) :
    p1 # p2 => Projected(t, Level(i), p1) # Projected(t, Level(i), p2)

C5_SplitSeparates ==
  Grown =>
    \A t \in Trees : \A i \in InternalNodes :
      /\ \A p \in NodePoints(t, 2 * i + 1) : 2 * Projected(t, Level(i), p) <= SplitPoint(t, i)
      /\ \A p \in NodePoints(t, 2 * i + 2) : 2 * Projected(t, Level(i), p) >= SplitPoint(t, i)
      /\ (NodeSize(t, i) % 2 = 1 /\ DistinctProjections(t, i)) =>
           \A p \in NodePoints(t, 2 * i + 2) : 2 * Projected(t, Level(i), p) > SplitPoint(t, i)

\* An odd node with a point in its right subtree.
C5_Witness ==
  /\ Grown
  /\ \E t \in Trees : \E i \in InternalNodes :
       NodeSize(t, i) = 3 /\ DistinctProjections(t, i) /\ NodePoints(t, 2 * i + 2) # {}

(* C5, as stated: the points of the right subtree are strictly greater     *)
(* than s whenever the node holds an odd number of points.                 *)
C5_Original ==
  Grown =>
    \A t \in Trees : \A i \in InternalNodes :
      /\ \A p \in NodePoints(t, 2 * i + 1) : 2 * Projected(t, Level(i), p) <= SplitPoint(t, i)
      /\ \A p \in NodePoints(t, 2 * i + 2) : 2 * Projected(t, Level(i), p) >= SplitPoint(t, i)
      /\ NodeSize(t, i) % 2 = 1 =>
           \A p \in NodePoints(t, 2 * i + 2) : 2 * Projected(t, Level(i), p) > SplitPoint(t, i)

(* C6: the split value of an internal node holding m >= 1 points is, for m *)
(* odd, the projected coordinate of its ceil(m/2)-th smallest point, which *)
(* is the largest of the left child, and for m even the mean of the        *)
(* largest of the left child and the smallest of the right child.          *)
\* x is the k-th smallest of the projected coordinates of the points in S.
IsKthSmallest(x, k, t, level, S) ==
  /\ \E p \in S : Projected(t, level, p) = x
  /\ Cardinality({p \in S : Projected(t, level, p) < x}) < k
  /\ Cardinality({p \in S : Projected(t, level, p) <= x}) >= k

IsLargest(x, t, level, S) ==
  /\ \E p \in S : Projected(t, level, p) = x
  /\ \A p \in S : Projected(t, level, p) <= x

IsSmallest(x, t, level, S) ==
  /\ \E p \in S : Projected(t, level, p) = x
  /\ \A p \in S : Projected(t, level, p) >= x

C6_SplitValue ==
  Grown =>
    \A t \in Trees : \A i \in InternalNodes :
      LET m == NodeSize(t, i)
          d == Level(i)
          s == SplitPoint(t, i)
      IN /\ (m >= 1 /\ m % 2 = 1) =>
              /\ s % 2 = 0
              /\ IsKthSmallest(s \div 2, (m + 1) \div 2, t, d, NodePoints(t, i))
              /\ IsLargest(s \div 2, t, d, NodePoints(t, 2 * i + 1))
         /\ (m >= 1 /\ m % 2 = 0) =>
              \E a, b \in {Projected(t, d, p) : p \in NodePoints(t, i)} :
                /\ IsLargest(a, t, d, NodePoints(t, 2 * i + 1))
                /\ IsSmallest(b, t, d, NodePoints(t, 2 * i + 2))
                /\ s = a + b

\* A tree with an odd node of three points and an even node of two with different values.
C6_Witness ==
  /\ Grown
  /\ \E t \in Trees : \E i, j \in InternalNodes :
       /\ NodeSize(t, i) = 3
       /\ NodeSize(t, j) = 2
       /\ \E p1, p2 \in NodePoints(t, j) : Projected(t, Level(j), p1) # Projected(t, Level(j), p2)

----------------------------------------------------------------------------
(* The last query, read back from the caller's buffers.                    *)

Queried == call.op = "query"

Min(a, b) == IF a < b THEN a ELSE b

\* Squared distance from data point p to the query point of the last call.
Dist(p) == squaredNorm(At(X, p), call.q)

\* The number of trees whose routed leaf holds p.
VoteCount(p) ==
  Cardinality({t \in Trees : p \in Slab(t, At(call.found_leaves, t - 1))})

(* C1: for every query with k >= 1 on a grown forest, with m the number of *)
(* elected candidates, the first min(k, m) entries of out are pairwise     *)
(* distinct elected indices holding the min(k, m) smallest squared         *)
(* distances to q in ascending order, and the other entries are -1.        *)
C1_KnnContract ==
  (Queried /\ Grown) =>
    LET m == call.n_elected
        n == Min(call.k, m)
        E == Range(call.elected)
        out == call.out
    IN /\ Len(out) = call.k
       /\ \A i \in 1..n : out[i] \in E
       /\ \A i, j \in 1..n : i # j => out[i] # out[j]
       /\ \A i \in 1..(n - 1) : Dist(out[i]) <= Dist(out[i + 1])
       /\ \A e \in E \ {out[i] : i \in 1..n} : \A i \in 1..n : Dist(out[i]) <= Dist(e)
       /\ \A i \in (n + 1)..call.k : out[i] = -1

\* Two neighbours asked of three candidates at different distances.
C1_Witness ==
  /\ Queried /\ Grown
  /\ call.k = 2
  /\ call.n_elected = 3
  /\ \A p1, p2 \in Range(call.elected) : p1 # p2 => Dist(p1) # Dist(p2)

(* C2: for a query with 1 <= votes_required <= n_trees the elected list    *)
(* holds exactly the points whose vote count, the number of trees whose    *)
(* routed leaf contains the point, is >= votes_required, each once.        *)
C2_ElectedByVotes ==
  (Queried /\ 1 <= call.votes_required /\ call.votes_required <= index.n_trees) =>
    /\ Range(call.elected) = {p \in 0..(n_samples - 1) : VoteCount(p) >= call.votes_required}
    /\ \A a, b \in 1..Len(call.elected) : a # b => call.elected[a] # call.elected[b]
    /\ call.n_elected = Len(call.elected)
    /\ \A p \in 0..(n_samples - 1) : At(call.votes, p) = VoteCount(p)

\* Two votes required of two trees: one point has both, another only one.
C2_Witness ==
  /\ Queried
  /\ index.n_trees = 2
  /\ call.votes_required = 2
  /\ \E p1, p2 \in 0..(n_samples - 1) : VoteCount(p1) = 2 /\ VoteCount(p2) = 1

(* C7, as amended: for a grown forest and a data point p, in every tree    *)
(* where p's projected coordinate is strictly greater than the split value *)
(* at each node that has p in its right subtree, the query q = X[:, p] is  *)
(* routed to the leaf whose slab contains p; when there is such a tree,    *)
(* query(q, 1, 1) returns an index whose point is at distance 0 from q.    *)
NoTieOnPath(t, p) ==
  \A i \in InternalNodes :
    p \in NodePoints(t, 2 * i + 2) => 2 * Projected(t, Level(i), p) > SplitPoint(t, i)

RoutedToOwnLeaf(t, p) == p \in Slab(t, At(call.found_leaves, t - 1))

ReturnsItself ==
  /\ call.out[1] # -1
  /\ Dist(call.out[1]) = 0
  /\ call.out_distances[1] = 0

C7_SelfQuery ==
  (Queried /\ Grown) =>
    \A p \in 0..(n_samples - 1) :
      At(X, p) = call.q =>
        /\ \A t \in Trees : NoTieOnPath(t, p) => RoutedToOwnLeaf(t, p)
        /\ (call.k = 1 /\ call.votes_required = 1 /\ \E t \in Trees : NoTieOnPath(t, p))
             => ReturnsItself

\* A point of a right subtree, above the split, queried with k = 1 and one vote.
C7_Witness ==
  /\ Queried /\ Grown
  /\ call.k = 1 /\ call.votes_required = 1
  /\ index.depth = 2
  /\ \E p \in 0..(n_samples - 1) :
       /\ At(X, p) = call.q
       /\ \A t \in Trees : NoTieOnPath(t, p) /\ p \in NodePoints(t, 2)

(* C7, as stated: every data point is routed to its own leaf in every tree *)
(* and query(q, 1, 1) returns a point at distance 0.                       *)
C7_Original ==
  (Queried /\ Grown) =>
    \A p \in 0..(n_samples - 1) :
      At(X, p) = call.q =>
        /\ \A t \in Trees : RoutedToOwnLeaf(t, p)
        /\ (call.k = 1 /\ call.votes_required = 1) => ReturnsItself

(* C8, as amended: for every query the first min(k, n_elected) values of   *)
(* out_distances are non-decreasing in output position and the values      *)
(* after them are -1.                                                      *)
C8_DistancesOrdered ==
  Queried =>
    LET n == Min(call.k, call.n_elected)
        d == call.out_distances
    IN /\ Len(d) = call.k
       /\ \A i, j \in 1..n : i < j => d[i] <= d[j]
       /\ \A i \in 1..n : d[i] >= 0
       /\ \A i \in (n + 1)..call.k : d[i] = -1

\* Three distances asked of three candidates, two of them different.
C8_Witness ==
  /\ Queried
  /\ call.k = 3
  /\ call.n_elected = 3
  /\ call.out_distances[1] < call.out_distances[3]

(* C8, as stated: the k values written to out_distances are non-decreasing *)
(* in output position, whatever the size of the elected set.               *)
C8_Original ==
  Queried =>
    \A i, j \in 1..call.k : i < j => call.out_distances[i] <= call.out_distances[j]

----------------------------------------------------------------------------
(* The autotuned index: grow with test queries, trimming, and the query of *)
(* a trimmed index, as the testers drive them.                             *)

\* The data sets the autotuning is run on.
TuneDatasets == {<<<<0>>, <<1>>, <<2>>>>, <<<<2>>, <<0>>>>}

\* The k a caller uses for an index that was not tuned.
TuneKs == {1, 2}

\* The autotuning runs: the test queries Q, k, trees_max, depth_min, depth_max
\* and votes_max that grow is called with.
TuneSetups ==
  {[Q |-> <<<<0>>>>, k |-> 1,
    trees_max |-> 1, depth_min |-> 0, depth_max |-> 1, votes_max |-> 1],
   [Q |-> <<<<1>>, <<2>>>>, k |-> 2,
    trees_max |-> 2, depth_min |-> 1, depth_max |-> 1, votes_max |-> 2]}

\* Target recalls, in units of 0.0001.
Targets == {1, 5000, 10000, 10003}

\* int min_all_votes = 5: voting is timed for the thresholds 1 .. 5
min_all_votes == 5

\* The fits fit_theil_sen can return for the measured times, as <<intercept, slope>>.
VotingFits == {[v \in 1..min_all_votes |-> <<0, 1>>], [v \in 1..min_all_votes |-> <<v, 0>>]}

ExactFits == {<<0, 0>>, <<0, 1>>}

FittedTimes(n_depths) ==
  {[projection |-> <<0, 1>>, voting |-> [d \in 1..n_depths |-> vf], exact |-> e] :
     vf \in VotingFits, e \in ExactFits}

\* idx_sum > 1.0 ? 0.0002 : 0.0001
RecallBumps == {1, 2}

\* The tree counts fit_times times the voting with, whatever n_trees is.
tested_trees == {1, 2, 3, 4, 5, 7, 10, 15, 20, 25, 30, 40, 50}

\* grow(target_recall, Q_, k_, trees_max, depth_min_, depth_max, votes_max_, density, seed)
grow_target(self, data, target_recall, Q_, k_, trees_max, depth_min_, depth_max, votes_max_, density_, times, bump) ==
  {delete_extra_trees(g, target_recall) :
     g \in grow_Q([self EXCEPT !.recall_level = target_recall], data, Q_, k_, trees_max,
                  depth_min_, depth_max, votes_max_, density_, times, bump)}

InitTune ==
  /\ X \in TuneDatasets
  /\ index = Mrpt
  /\ index2 = Mrpt
  /\ call = [op |-> "Mrpt"]

Running == call.op \notin {"autotuned_query", "abort"}

GrowQ ==
  /\ call.op = "Mrpt"
  /\ \E s \in TuneSetups, density_ \in Densities, bump \in RecallBumps :
       \E times \in FittedTimes(s.depth_max - s.depth_min + 1) :
         index' \in grow_Q(index, X, s.Q, s.k, s.trees_max, s.depth_min, s.depth_max,
                           s.votes_max, density_, times, bump)
  /\ call' = [op |-> "grow"]
  /\ UNCHANGED <<X, index2>>

GrowTarget ==
  /\ call.op = "Mrpt"
  /\ \E s \in TuneSetups, density_ \in Densities, bump \in RecallBumps,
        target_recall \in Targets :
       \E times \in FittedTimes(s.depth_max - s.depth_min + 1) :
         /\ index' \in grow_target(index, X, target_recall, s.Q, s.k, s.trees_max, s.depth_min,
                                   s.depth_max, s.votes_max, density_, times, bump)
         /\ call' = [op |-> "grow_target", target |-> target_recall]
  /\ UNCHANGED <<X, index2>>

\* fit_times runs vote over the first t trees for every t of tested_trees: with
\* t > n_trees it reads tree_leaves and split_points beyond their ends, and the
\* run either goes on (the result is only timed) or is killed.
FitTimesFault ==
  /\ call.op = "Mrpt"
  /\ \E s \in TuneSetups : \E t \in tested_trees : t > s.trees_max
  /\ call' = [op |-> "abort"]
  /\ UNCHANGED <<X, index, index2>>

\* index.delete_extra_trees(target_recall) on an index that was not trimmed before.
DeleteExtraTrees ==
  /\ Running
  /\ index.optimal_parameters.n_trees = 0
  /\ \E target_recall \in Targets :
       /\ index' = delete_extra_trees(index, target_recall)
       /\ call' = [op |-> "delete_extra_trees", target |-> target_recall]
  /\ UNCHANGED <<X, index2>>

\* A subset_trees that trims the parent in place before it fills index2 (not
\* the code's: the code writes to index2 only).
SubsetTreesInPlace ==
  /\ Running
  /\ index.optimal_parameters.n_trees = 0
  /\ \E target_recall \in Targets :
       /\ index' = delete_extra_trees(index, target_recall)
       /\ index2' = subset_trees(index, target_recall, Mrpt)
       /\ call' = [op |-> "subset_trees", target |-> target_recall]
  /\ UNCHANGED X

\* Mrpt index2(M); index.subset_trees(target_recall, index2); with index the
\* parent as profiled.
SubsetTrees ==
  /\ Running
  /\ index.optimal_parameters.n_trees = 0
  /\ \E target_recall \in Targets :
       /\ index2' = subset_trees(index, target_recall, Mrpt)
       /\ call' = [op |-> "subset_trees", target |-> target_recall]
  /\ UNCHANGED <<X, index>>

GetOptimalParameters ==
  /\ Running
  /\ \E target_recall \in Targets :
       call' = [op |-> "get_optimal_parameters", target |-> target_recall,
                result |-> get_optimal_parameters(index, target_recall)]
  /\ UNCHANGED <<X, index, index2>>

\* The caller's buffer has room for the k the index was tuned with, or for
\* the caller's own k when the index holds none.
AutotunedQuery ==
  /\ Running
  /\ \E on \in {"index", "index2"}, q \in Points, buffer \in TuneKs :
       LET self == IF on = "index" THEN index ELSE index2
       IN /\ self.k # Indet => buffer = self.k
          /\ \E r \in autotuned_query(self, X, q, buffer) :
               call' = [op |-> "autotuned_query", on |-> on, q |-> q, buffer |-> buffer,
                        out |-> r.out, overrun |-> r.overrun, n_elected |-> r.n_elected]
  /\ UNCHANGED <<X, index, index2>>

\* The body of the caller's loop over the targets ends: the result buffer
\* and index2 go out of scope.
ReleaseTune ==
  /\ call.op = "autotuned_query"
  /\ call' = [op |-> "release"]
  /\ index2' = Mrpt
  /\ UNCHANGED <<X, index>>

NextTune ==
  \/ GrowQ
  \/ GrowTarget
  \/ FitTimesFault
  \/ DeleteExtraTrees
  \/ SubsetTrees
  \/ GetOptimalParameters
  \/ AutotunedQuery
  \/ ReleaseTune

SpecTune == InitTune /\ [][NextTune]_vars

----------------------------------------------------------------------------
\* No element of the frontier has an estimated recall above target_recall - 0.0001.
Infeasible(self, target_recall) ==
  \A i \in 1..Len(self.opt_pars) : ~(self.opt_pars[i].estimated_recall > target_recall - 1)

\* The object the last autotuned query was made on.
Queried2 == IF call.on = "index" THEN index ELSE index2

(* C9, as stated: when no frontier entry has an estimated recall above     *)
(* target_recall - 0.0001, trimming at that target (subset_trees into a    *)
(* new forest, delete_extra_trees or the target overload of grow on the    *)
(* forest itself) yields an empty forest, n_trees = 0, and a subsequent    *)
(* query on it writes -1 to all k output positions.                        *)
C9_Original ==
  /\ (call.op \in {"delete_extra_trees", "grow_target"} /\ Infeasible(index, call.target))
       => index.n_trees = 0
  /\ (call.op = "subset_trees" /\ Infeasible(index, call.target))
       => index2.n_trees = 0
  /\ (call.op = "autotuned_query" /\ Queried2.recall_level >= 0
        /\ Infeasible(index, Queried2.recall_level))
       => /\ ~call.overrun
          /\ \A i \in 1..call.buffer : call.out[i] = -1

(* C10: get_optimal_parameters(target_recall) returns the first element,   *)
(* in ascending estimated query time, of the frontier opt_pars whose       *)
(* estimated recall is strictly greater than target_recall - 0.0001, and a *)
(* default Parameters with n_trees = 0 when there is none, opt_pars being  *)
(* empty included.                                                         *)
C10_OptimalParameters ==
  call.op = "get_optimal_parameters" =>
    LET opt == index.opt_pars
        qualifying == {i \in 1..Len(opt) : opt[i].estimated_recall > call.target - 1}
    IN IF qualifying = {}
         THEN call.result = Parameters /\ call.result.n_trees = 0
         ELSE \E i \in qualifying :
                /\ call.result = opt[i]
                /\ call.result.n_trees > 0
                /\ \A j \in qualifying \ {i} :
                     i < j /\ opt[i].estimated_qtime < opt[j].estimated_qtime

\* A frontier of two whose first element misses the target and whose second meets it.
C10_Witness ==
  /\ call.op = "get_optimal_parameters"
  /\ Len(index.opt_pars) >= 2
  /\ call.result = index.opt_pars[2]
  /\ call.result # index.opt_pars[1]

----------------------------------------------------------------------------
(* The profiling alone, with the fits of a timer too coarse to tell the    *)
(* projections of different sizes apart among the fits fit_theil_sen can   *)
(* return.                                                                 *)

ProjectionFits == {<<0, 1>>, <<1, 0>>}

AllFittedTimes(n_depths) ==
  {[projection |-> p, voting |-> [d \in 1..n_depths |-> vf], exact |-> e] :
     p \in ProjectionFits, vf \in VotingFits, e \in ExactFits}

\* Two trees of two levels, to be profiled at depths 1 and 2.
TrimSetups ==
  {[Q |-> <<<<1>>>>, k |-> 1, trees_max |-> 2, depth_min |-> 1, depth_max |-> 2, votes_max |-> 2]}

GrowProfile ==
  /\ call.op = "Mrpt"
  /\ \E s \in TuneSetups \cup TrimSetups, density_ \in Densities, bump \in RecallBumps :
       \E times \in AllFittedTimes(s.depth_max - s.depth_min + 1) :
         index' \in grow_Q(index, X, s.Q, s.k, s.trees_max, s.depth_min, s.depth_max,
                           s.votes_max, density_, times, bump)
  /\ call' = [op |-> "grow"]
  /\ UNCHANGED <<X, index2>>

\* count_elected on the profiled forest for a query and its true k nearest
\* neighbours, as the loop of grow over the test queries calls it.
CountElected ==
  /\ call.op = "grow"
  /\ \E q \in Points :
       \E e \in exact_knn(X, q, index.k, iota(Len(X)), Len(X)) :
         call' = [op |-> "count_elected", q |-> q, exact |-> sort(e.out)]
                   @@ count_elected(index, X, q, sort(e.out), index.votes_max, Len(index.recalls))
  /\ UNCHANGED <<X, index, index2>>

NextFit == GrowProfile \/ GetOptimalParameters \/ CountElected

SpecFit == InitTune /\ [][NextFit]_vars

----------------------------------------------------------------------------
(* Trimming a forest of two trees built at depth 2 down to one level: the  *)
(* rows of the random matrix that a trimmed tree keeps are not the rows    *)
(* that follow those of the tree before it.                                *)

GrowDeep ==
  /\ call.op = "Mrpt"
  /\ \E s \in TrimSetups, density_ \in Densities, bump \in RecallBumps :
       \E times \in FittedTimes(s.depth_max - s.depth_min + 1) :
         index' \in grow_Q(index, X, s.Q, s.k, s.trees_max, s.depth_min, s.depth_max,
                           s.votes_max, density_, times, bump)
  /\ call' = [op |-> "grow"]
  /\ UNCHANGED <<X, index2>>

NextTrim ==
  \/ GrowDeep
  \/ DeleteExtraTrees
  \/ SubsetTrees
  \/ AutotunedQuery
  \/ ReleaseTune

SpecTrim == InitTune /\ [][NextTrim]_vars

----------------------------------------------------------------------------
(* save and load.  A file is the sequence of the ints and floats written   *)
(* to it; fread of a word that is not there leaves its buffer as it was.   *)

RECURSIVE Concat(_)
Concat(vectors) == IF vectors = <<>> THEN <<>> ELSE Head(vectors) \o Concat(Tail(vectors))

\* The entries of split_points row by row (not the code's: an Eigen MatrixXf
\* is stored column by column).
SplitPointsRowMajor(self) ==
  [w \in 1..(self.n_array * self.n_trees) |->
     At(self.split_points[((w - 1) % self.n_trees) + 1], (w - 1) \div self.n_trees)]

\* split_points.data(): the matrix is stored column by column
SplitPointsData(self) == SubSeq(Concat(self.split_points), 1, self.n_array * self.n_trees)

\* the loop that writes sz and the indices of every tree
TreeLeavesData(self) ==
  Concat([i \in 1..self.n_trees |-> <<Len(self.tree_leaves[i])>> \o self.tree_leaves[i]])

\* The triplets (row, col, value) of the stored entries of a sparse matrix,
\* row by row: an entry that was not inserted is not stored, and reads as 0.
RECURSIVE Triplets(_, _, _)
Triplets(sparse_random_matrix, k, col) ==
  IF k >= Len(sparse_random_matrix)
    THEN <<>>
    ELSE IF col >= Len(At(sparse_random_matrix, k))
           THEN Triplets(sparse_random_matrix, k + 1, 0)
           ELSE (IF At(At(sparse_random_matrix, k), col) = 0
                   THEN <<>> ELSE <<k, col, At(At(sparse_random_matrix, k), col)>>)
                \o Triplets(sparse_random_matrix, k, col + 1)

RandomMatrixData(self) ==
  IF self.density < 100
    THEN LET triplets == Triplets(self.sparse_random_matrix, 0, 0)
         IN <<Len(triplets) \div 3>> \o triplets
    ELSE Concat(self.dense_random_matrix)

\* What save writes when every fwrite is complete.
SavedFile(self) ==
  <<self.n_trees, self.depth, self.density>> \o SplitPointsData(self)
    \o TreeLeavesData(self) \o RandomMatrixData(self)

\* The outcomes of save: fopen fails, or the fwrites leave the first written
\* words of the file on the disk.  The results of fwrite are not looked at.
save(self, path, fopen, written) ==
  IF ~fopen
    THEN [ok |-> FALSE, path |-> path]
    ELSE [ok |-> TRUE, path |-> SubSeq(SavedFile(self), 1, written)]

\* the loop of load over the trees, reading from position pos (1-based)
RECURSIVE LoadLeaves(_, _, _)
LoadLeaves(file, pos, n_trees) ==
  IF n_trees = 0
    THEN [tree_leaves |-> <<>>, pos |-> pos]
    ELSE LET sz == file[pos]
             rest == LoadLeaves(file, pos + 1 + sz, n_trees - 1)
         IN [tree_leaves |-> <<SubSeq(file, pos + 1, pos + sz)>> \o rest.tree_leaves,
             pos |-> rest.pos]

\* setFromTriplets: the values of the triplets at (row, col) are summed
RECURSIVE SumAt(_, _, _)
SumAt(triplets, row, col) ==
  IF triplets = <<>>
    THEN 0
    ELSE (IF triplets[1] = row /\ triplets[2] = col THEN triplets[3] ELSE 0)
         + SumAt(SubSeq(triplets, 4, Len(triplets)), row, col)

setFromTriplets(n_row, n_col, triplets) ==
  [j \in 1..n_row |-> [i \in 1..n_col |-> SumAt(triplets, j - 1, i - 1)]]

\* The dense matrices load can leave: the floats the file holds, and for
\* those it does not hold whatever the new matrix was allocated with.
LoadDense(file, pos, n_pool, dim) ==
  LET unread == {i \in 1..(n_pool * dim) : pos + i - 1 > Len(file)}
  IN {[j \in 1..n_pool |-> [i \in 1..dim |->
         LET w == (j - 1) * dim + i
         IN IF w \in unread THEN g[w] ELSE file[pos + w - 1]]] : g \in [unread -> Garbage]}

\* Where the random matrix starts in a file with this header, the position
\* after the end of the file when the file ends before that.
RECURSIVE LeavesEnd(_, _, _)
LeavesEnd(file, pos, n_trees) ==
  IF n_trees = 0
    THEN pos
    ELSE IF pos > Len(file)
           THEN Len(file) + 2
           ELSE LeavesEnd(file, pos + 1 + file[pos], n_trees - 1)

MatrixStart(file) == LeavesEnd(file, 4 + Pow2(file[2] + 1) * file[1], file[1])

\* The file holds every word its header and its counts announce.
Complete(file, dim) ==
  /\ Len(file) >= 3
  /\ IF file[3] < 100
       THEN /\ MatrixStart(file) <= Len(file)
            /\ Len(file) = MatrixStart(file) + 3 * file[MatrixStart(file)]
       ELSE Len(file) = MatrixStart(file) + file[1] * file[2] * dim - 1

\* The files load is given here: complete ones, and those of a dense forest
\* that end within the random matrix.
Loadable(file, dim) ==
  \/ Complete(file, dim)
  \/ /\ Len(file) >= 3
     /\ file[3] >= 100
     /\ MatrixStart(file) <= Len(file) + 1

\* The outcomes of load(path) on the object self over data.
load(self, data, path, fopen) ==
  IF ~fopen
    THEN {[ok |-> FALSE, self |-> self]}
    ELSE LET n_trees == path[1]
             depth == path[2]
             density == path[3]
             n_pool == n_trees * depth
             n_array == Pow2(depth + 1)
             dim == Len(data[1])
             all == count_first_leaf_indices_all(self.leaf_first_indices_all, Len(data), depth)
             split_points == [t \in 1..n_trees |->
                                SubSeq(path, 4 + (t - 1) * n_array, 3 + t * n_array)]
             leaves == LoadLeaves(path, 4 + n_array * n_trees, n_trees)
             read == [self EXCEPT !.n_trees = n_trees, !.depth = depth, !.density = density,
                                  !.n_pool = n_pool, !.n_array = n_array,
                                  !.leaf_first_indices_all = all,
                                  !.leaf_first_indices = At(all, depth),
                                  !.split_points = split_points,
                                  !.tree_leaves = leaves.tree_leaves]
         IN IF density < 100
              THEN LET non_zeros == path[leaves.pos]
                       triplets == SubSeq(path, leaves.pos + 1, leaves.pos + 3 * non_zeros)
                   IN {[ok |-> TRUE,
                        self |-> [read EXCEPT !.sparse_random_matrix =
                                                 setFromTriplets(n_pool, dim, triplets)]]}
              ELSE {[ok |-> TRUE, self |-> [read EXCEPT !.dense_random_matrix = m]] :
                      m \in LoadDense(path, leaves.pos, n_pool, dim)}

\* n_trees_, depth_ and density_ of the forests saved
GrowPlain ==
  /\ call.op = "Mrpt"
  /\ \E n_trees_ \in 1..MaxTrees, depth_ \in 0..MaxDepth, density_ \in Densities :
       /\ n_trees_ * depth_ <= MaxPool
       /\ index' \in grow(index, X, n_trees_, depth_, density_)
  /\ call' = [op |-> "grow"]
  /\ UNCHANGED <<X, index2>>

\* index.save(path)
Save ==
  /\ call.op \in {"grow", "delete_extra_trees"}
  /\ \E fopen \in BOOLEAN, written \in 0..Len(SavedFile(index)) :
       call' = [op |-> "save"] @@ save(index, <<>>, fopen, written)
  /\ UNCHANGED <<X, index, index2>>

\* Mrpt index2(M); index2.load(path) with the file that save left
Load ==
  /\ call.op = "save"
  /\ call.ok
  /\ Loadable(call.path, Len(X[1]))
  /\ \E fopen \in BOOLEAN :
       \E r \in load(Mrpt, X, call.path, fopen) :
         /\ index2' = r.self
         /\ call' = [op |-> "load", ok |-> r.ok, path |-> call.path]
  /\ UNCHANGED <<X, index>>

NextIO ==
  \/ GrowPlain
  \/ GrowQ
  \/ DeleteExtraTrees
  \/ Save
  \/ Load

SpecIO == InitTune /\ [][NextIO]_vars

----------------------------------------------------------------------------
(* The parallel region of grow: one worker per tree, a step of a worker    *)
(* being one call of grow_subtree (or the allocation of its index vector). *)
(* call.stacks[t] holds the calls worker t has still to make, in the order *)
(* of the recursion.                                                       *)

\* A split point written to the first column whatever the tree is (not the
\* code's).
WriteSplitFirstColumn(split_points, i, n_tree, s) == [split_points EXCEPT ![1][i + 1] = s]

\* split_points(i, n_tree) = s
WriteSplit(split_points, i, n_tree, s) == [split_points EXCEPT ![n_tree + 1][i + 1] = s]

\* What one step of the worker of tree n_tree can do to the forest self, and
\* the calls it leaves to be made after it.
grow_node(self, data, n_tree, frame) ==
  IF frame.pc = "iota"
    THEN {[self |-> [self EXCEPT !.tree_leaves[n_tree + 1] = iota(Len(data))],
           push |-> <<[pc |-> "grow_subtree", begin |-> 0, end |-> Len(data),
                       tree_level |-> 0, i |-> 0]>>]}
    ELSE LET begin == frame.begin
             end == frame.end
             n == end - begin
             mid == Mid(begin, end)
             random_matrix == IF self.density < 100 THEN self.sparse_random_matrix
                                                    ELSE self.dense_random_matrix
             key == At(TreeProjections(random_matrix, n_tree, self.depth, data), frame.tree_level)
             entered == [self EXCEPT !.node_ranges[n_tree + 1][frame.i + 1] = <<begin, end>>]
         IN IF frame.tree_level = self.depth
              THEN {[self |-> entered, push |-> <<>>]}
              ELSE UNION {
                     {[self |-> [entered EXCEPT
                                   !.tree_leaves[n_tree + 1] = v,
                                   !.split_points = WriteSplit(@, frame.i, n_tree, s)],
                       push |-> <<[pc |-> "grow_subtree", begin |-> begin, end |-> mid,
                                   tree_level |-> frame.tree_level + 1, i |-> 2 * frame.i + 1],
                                  [pc |-> "grow_subtree", begin |-> mid, end |-> end,
                                   tree_level |-> frame.tree_level + 1, i |-> 2 * frame.i + 2]>>] :
                        s \in SplitValues(v, begin, end, key)} :
                     v \in nth_element(At(self.tree_leaves, n_tree), begin, begin + n \div 2,
                                       end, key)}

\* grow up to the parallel region: the members, the random matrix and the
\* empty containers.
EnterGrow ==
  /\ call.op = "Mrpt"
  /\ \E n_trees_ \in 1..MaxTrees, depth_ \in 0..MaxDepth, density_ \in Densities :
       /\ n_trees_ * depth_ <= MaxPool
       /\ \E rm \in IF density_ < 100
                      THEN build_sparse_random_matrix(n_trees_ * depth_, Len(X[1]))
                      ELSE build_dense_random_matrix(n_trees_ * depth_, Len(X[1])) :
            LET all == count_first_leaf_indices_all(index.leaf_first_indices_all, Len(X), depth_)
            IN index' = [index EXCEPT
                 !.n_trees = n_trees_, !.depth = depth_, !.density = density_,
                 !.n_pool = n_trees_ * depth_, !.n_array = Pow2(depth_ + 1),
                 !.sparse_random_matrix = IF density_ < 100 THEN rm ELSE @,
                 !.dense_random_matrix = IF density_ < 100 THEN @ ELSE rm,
                 !.split_points = [t \in 1..n_trees_ |-> NewColumn(Pow2(depth_ + 1))],
                 !.tree_leaves = [t \in 1..n_trees_ |-> <<>>],
                 !.node_ranges = [t \in 1..n_trees_ |-> NoRanges(Pow2(depth_ + 1))],
                 !.leaf_first_indices_all = all,
                 !.leaf_first_indices = At(all, depth_)]
       /\ call' = [op |-> "parallel", stacks |-> [t \in 1..n_trees_ |-> <<[pc |-> "iota"]>>]]
  /\ UNCHANGED <<X, index2>>

\* The worker of tree n_tree makes its next call.
Worker(n_tree) ==
  /\ call.op = "parallel"
  /\ n_tree < index.n_trees
  /\ call.stacks[n_tree + 1] # <<>>
  /\ \E r \in grow_node(index, X, n_tree, Head(call.stacks[n_tree + 1])) :
       /\ index' = r.self
       /\ call' = [call EXCEPT !.stacks[n_tree + 1] = r.push \o Tail(@)]
  /\ UNCHANGED <<X, index2>>

NextPar == EnterGrow \/ \E n_tree \in 0..(MaxTrees - 1) : Worker(n_tree)

SpecPar == Init /\ [][NextPar]_vars

----------------------------------------------------------------------------
(* An object and a counter that are used again: a second grow on an index  *)
(* that holds a forest (grown or loaded), and a query whose out_n_elected   *)
(* points to a variable of the caller that holds a value already.           *)

\* index.grow(n_trees_, depth_, density_) or index2.grow(...) on an object
\* that holds a forest.
GrowAgain ==
  /\ call.op \in {"grow", "load"}
  /\ \E on \in {"index", "index2"} :
       LET self == IF on = "index" THEN index ELSE index2
       IN /\ self.n_trees > 0
          /\ \E n_trees_ \in 1..MaxTrees, depth_ \in 0..MaxDepth, density_ \in Densities :
               /\ n_trees_ * depth_ <= MaxPool
               /\ \E grown \in grow(self, X, n_trees_, depth_, density_) :
                    /\ index' = IF on = "index" THEN grown ELSE index
                    /\ index2' = IF on = "index" THEN index2 ELSE grown
          /\ call' = [op |-> "grow_again", on |-> on]
  /\ UNCHANGED X

\* int n_elected = held; index.query(q, k, votes_required, out, ...,
\* out_distances, &n_elected): the call ends with
\* if(out_n_elected) *out_n_elected += n_elected.
QueryElected ==
  /\ call.op = "grow"
  /\ \E q \in Points, k \in 1..MaxK, votes_required \in 1..index.n_trees, held \in {0, 1, 3} :
       \E r \in query(index, X, q, k, votes_required) :
         call' = r @@ [held |-> held, out_n_elected |-> held + r.n_elected]
  /\ UNCHANGED <<X, index, index2>>

NextReuse ==
  \/ GrowPlain
  \/ Save
  \/ Load
  \/ GrowAgain
  \/ QueryElected

SpecReuse == InitTune /\ [][NextReuse]_vars

----------------------------------------------------------------------------
(* delete_extra_trees called again on a forest that was trimmed already.   *)

\* delete_extra_trees(target_recall) on any forest: resize and
\* conservativeResize also enlarge (with empty vectors and with entries that
\* are not initialized), and a row of the random matrix that middleRows takes
\* from beyond its last row is indeterminate.
delete_extra_trees_again(self, data, target_recall) ==
  LET optimal_parameters == get_optimal_parameters(self, target_recall)
      entered == [self EXCEPT !.recall_level = target_recall,
                              !.optimal_parameters = optimal_parameters]
      depth_max == self.depth
      n_trees == optimal_parameters.n_trees
      depth == optimal_parameters.depth
      n_array == Pow2(depth + 1)
      dim == Len(At(data, 0))
      resize(v) == [t \in 1..n_trees |-> IF t <= Len(v) THEN v[t] ELSE <<>>]
      conservativeResize(columns, fill) ==
        [t \in 1..n_trees |->
           [i \in 1..n_array |-> IF t <= Len(columns) /\ i <= Len(columns[t])
                                   THEN columns[t][i] ELSE fill]]
      middleRows(random_matrix, g) ==
        [j \in 1..(n_trees * depth) |->
           LET row == ((j - 1) \div depth) * depth_max + ((j - 1) % depth)
           IN IF row < Len(random_matrix)
                THEN At(random_matrix, row)
                ELSE [c \in 1..dim |-> g]]
  IN IF optimal_parameters.n_trees = 0
       THEN {entered}
       ELSE {[entered EXCEPT
                !.n_trees = n_trees, !.depth = depth, !.votes = optimal_parameters.votes,
                !.n_pool = depth * n_trees, !.n_array = n_array,
                !.tree_leaves = resize(@),
                !.split_points = conservativeResize(@, Uninit),
                !.node_ranges = conservativeResize(@, <<>>),
                !.leaf_first_indices = At(self.leaf_first_indices_all, depth),
                !.sparse_random_matrix =
                   IF self.density < 100 THEN middleRows(@, g) ELSE @,
                !.dense_random_matrix =
                   IF self.density < 100 THEN @ ELSE middleRows(@, g)] : g \in Garbage}

\* index.delete_extra_trees(target_recall), on a profiled forest or on one
\* that an earlier call cut down; where the rows it takes lie beyond the
\* random matrix the call may also be stopped.
DeleteExtraTreesAgain ==
  /\ call.op \in {"grow", "delete_extra_trees"}
  /\ \E target_recall \in Targets :
       LET optimal_parameters == get_optimal_parameters(index, target_recall)
       IN \/ /\ index' \in delete_extra_trees_again(index, X, target_recall)
             /\ call' = [op |-> "delete_extra_trees", target |-> target_recall]
          \/ /\ optimal_parameters.n_trees > 0
             /\ (optimal_parameters.n_trees - 1) * index.depth + optimal_parameters.depth
                  > index.n_pool
             /\ index' = index
             /\ call' = [op |-> "abort"]
  /\ UNCHANGED <<X, index2>>

NextAgain == GrowQ \/ GrowDeep \/ DeleteExtraTreesAgain

SpecAgain == InitTune /\ [][NextAgain]_vars

----------------------------------------------------------------------------
(* The autotuning results, read back from the profiled index.              *)

\* Autotuning ran on index: fit_times filled pars.
Profiled == index.pars # <<>>

\* trees_max and depth_max of the autotuning run, from the sizes of recalls.
TreesMax == Len(index.recalls[1])

DepthMax == index.depth_min + Len(index.recalls) - 1

\* The configurations <<t, d, v>> fit_times enumerates.
Enumerated ==
  {c \in (1..TreesMax) \X (index.depth_min..DepthMax) \X (1..index.votes_max) : c[3] <= c[1]}

EstimatedRecall(c) == get_recall(index, c[1], c[2], c[3])

EstimatedQtime(c) == get_query_time(index, c[1], c[2], c[3])

\* The enumerated configurations whose estimated recall exceeds target_recall - 0.0001.
Meeting(target_recall) == {c \in Enumerated : EstimatedRecall(c) > target_recall - 1}

(* C11, as stated: after autotuning, for any target recall that at least   *)
(* one enumerated configuration (t, d, v) meets, get_optimal_parameters    *)
(* returns a non-empty configuration whose estimated query time is the     *)
(* minimum over the enumerated configurations that meet the target; and no *)
(* enumerated configuration is both faster than a frontier entry and at    *)
(* least as accurate.                                                      *)
C11_Original ==
  (Profiled /\ call.op = "get_optimal_parameters") =>
    /\ Meeting(call.target) # {} =>
         /\ call.result.n_trees > 0
         /\ <<call.result.n_trees, call.result.depth, call.result.votes>> \in Meeting(call.target)
         /\ \A c \in Meeting(call.target) : call.result.estimated_qtime <= EstimatedQtime(c)
    /\ \A i \in 1..Len(index.opt_pars) : \A c \in Enumerated :
         ~(/\ EstimatedQtime(c) < index.opt_pars[i].estimated_qtime
           /\ EstimatedRecall(c) >= index.opt_pars[i].estimated_recall)

(* C12: after autotuning, from each entry of the frontier opt_pars to the next
   in container order, estimated_qtime strictly increases and estimated_recall
   strictly increases. *)
C12_FrontierMonotone ==
  Profiled =>
    \A i \in 1..(Len(index.opt_pars) - 1) :
      /\ index.opt_pars[i].estimated_qtime < index.opt_pars[i + 1].estimated_qtime
      /\ index.opt_pars[i].estimated_recall < index.opt_pars[i + 1].estimated_recall

\* A profiled forest whose frontier has two entries, cut out of a pars with a
\* slower record that is not more accurate than a faster one.
C12_Witness ==
  /\ Profiled
  /\ Len(index.opt_pars) >= 2
  /\ Len(index.pars) > Len(index.opt_pars)

----------------------------------------------------------------------------
\* The random matrix the forest projects with.
RandomMatrix(self) ==
  IF self.density < 100 THEN self.sparse_random_matrix ELSE self.dense_random_matrix

\* child is parent cut down to the optimal parameters child holds.
TrimmedFrom(parent, child) ==
  LET n_trees == child.optimal_parameters.n_trees
      depth == child.optimal_parameters.depth
      depth_max == parent.depth
  IN /\ child.n_trees = n_trees
     /\ child.depth = depth
     /\ child.votes = child.optimal_parameters.votes
     /\ Len(child.tree_leaves) = n_trees
     /\ \A t \in 1..n_trees : child.tree_leaves[t] = parent.tree_leaves[t]
     /\ Len(child.split_points) = n_trees
     /\ \A t \in 1..n_trees :
          /\ Len(child.split_points[t]) = Pow2(depth + 1)
          /\ \A i \in 0..(Pow2(depth + 1) - 1) :
               At(child.split_points[t], i) = At(parent.split_points[t], i)
     /\ child.leaf_first_indices = count_first_leaf_indices(Len(X), depth)
     /\ Len(RandomMatrix(child)) = n_trees * depth
     /\ \A t \in 0..(n_trees - 1) : \A l \in 0..(depth - 1) :
          At(RandomMatrix(child), t * depth + l) = At(RandomMatrix(parent), t * depth_max + l)

(* C13: for a feasible target, subset_trees and delete_extra_trees on a parent
   built at depth_max leave a forest whose tree_leaves are the parent's first
   n' leaf vectors, whose split_points are the parent's top-left
   2^(d'+1) x n' block, whose leaf offsets are the prefix sums of the leaf
   sizes at depth d', and whose projection row t*d' + l is the parent's row
   t*depth_max + l. *)
C13_TrimmedForest ==
  [][/\ (call'.op = "subset_trees" /\ index2'.optimal_parameters.n_trees > 0)
          => TrimmedFrom(index, index2')
     /\ (call'.op = "delete_extra_trees" /\ index'.optimal_parameters.n_trees > 0)
          => TrimmedFrom(index, index')]_vars

\* Two trees trimmed to fewer levels than they were grown with, the second
\* tree projecting with a row of its own.
C13_Witness ==
  /\ call.op = "subset_trees"
  /\ index2.optimal_parameters.n_trees = 2
  /\ index2.n_trees = 2
  /\ index2.depth = 1
  /\ index.depth = 2
  /\ At(RandomMatrix(index), 1) # At(RandomMatrix(index), 2)
  /\ At(RandomMatrix(index2), 1) = At(RandomMatrix(index), 2)

(* C14: subset_trees(target, index2) leaves every field of the parent forest
   unchanged, so that for every target of a sequence of calls index2 is the
   forest one call on the parent as profiled gives; what happens to index2
   afterwards (queries, its destruction) does not alter the parent either. *)
C14_ParentUnchanged ==
  [][/\ call'.op = "subset_trees" =>
          /\ index' = index
          /\ index2' = subset_trees(index', call'.target, Mrpt)
     /\ call'.op \in {"autotuned_query", "release"} => index' = index]_vars

\* subset_trees has cut index2 out of a parent that still has all its trees
\* and levels and holds no optimal parameters of its own.
C14_Witness ==
  /\ call.op = "subset_trees"
  /\ index2.n_trees > 0
  /\ index.optimal_parameters.n_trees = 0
  /\ index.n_trees = 2
  /\ index.depth = 2
  /\ index2.n_trees * index2.depth < index.n_trees * index.depth

----------------------------------------------------------------------------
\* load has read a complete file into index2, the file save wrote from index.
Reloaded == call.op = "load" /\ call.ok /\ Complete(call.path, Len(X[1]))

\* Position (1-based) in the file of the word before sz of tree t.
LeavesAt(self, t) == 3 + self.n_array * self.n_trees + t * (Len(X) + 1)

(* C15: save(path) from a grown or trimmed forest followed by load(path) into
   an Mrpt constructed over the same data gives the same n_trees, depth,
   density, split_points, tree_leaves and projection matrix; the file holds
   n_trees, depth, density, the split points, for each tree its size and its
   indices, and the projection matrix, in this order; and query(q, k,
   votes_required) gives the same indices and distances on both forests. *)
C15_RoundTrip ==
  Reloaded =>
    /\ index2.n_trees = index.n_trees
    /\ index2.depth = index.depth
    /\ index2.density = index.density
    /\ index2.split_points = index.split_points
    /\ index2.tree_leaves = index.tree_leaves
    /\ RandomMatrix(index2) = RandomMatrix(index)
    /\ SubSeq(call.path, 1, 3) = <<index.n_trees, index.depth, index.density>>
    /\ \A t \in 1..index.n_trees :
         /\ \A i \in 0..(index.n_array - 1) :
              call.path[4 + (t - 1) * index.n_array + i] = At(index.split_points[t], i)
         /\ call.path[LeavesAt(index, t - 1) + 1] = Len(X)
         /\ \A i \in 0..(Len(X) - 1) :
              call.path[LeavesAt(index, t - 1) + 2 + i] = At(index.tree_leaves[t], i)
    /\ index.density >= 100 =>
         \A j \in 0..(index.n_pool - 1) : \A i \in 0..(Len(X[1]) - 1) :
           call.path[LeavesAt(index, index.n_trees) + 1 + j * Len(X[1]) + i]
             = At(At(index.dense_random_matrix, j), i)
    /\ index.density < 100 =>
         call.path[LeavesAt(index, index.n_trees) + 1]
           = Cardinality({c \in (1..index.n_pool) \X (1..Len(X[1])) :
                            index.sparse_random_matrix[c[1]][c[2]] # 0})
    /\ \A q \in Points, k \in 1..MaxK, votes_required \in 1..index.n_trees :
         {[out |-> r.out, out_distances |-> r.out_distances] :
            r \in query(index2, X, q, k, votes_required)}
           = {[out |-> r.out, out_distances |-> r.out_distances] :
                r \in query(index, X, q, k, votes_required)}

\* A trimmed forest of two trees with different split points was saved and
\* loaded.
C15_Witness ==
  /\ Reloaded
  /\ index.optimal_parameters.n_trees = 2
  /\ index2.n_trees = 2
  /\ index2.depth = 1
  /\ index2.split_points[1] # index2.split_points[2]

(* C17, as stated: save and load return true only when the complete forest
   was written or read, and false whenever the file cannot be opened, a write
   is short or the file ends before every field its header announces. *)
C17_Original ==
  /\ (call.op = "save" /\ call.ok) => call.path = SavedFile(index)
  /\ (call.op = "load" /\ call.ok) => Complete(call.path, Len(X[1]))

----------------------------------------------------------------------------
\* The arguments of the query are outside what the forest and the data allow.
InvalidQuery ==
  \/ call.k < 1
  \/ call.k > Len(X)
  \/ call.votes_required < 1
  \/ call.votes_required > index.n_trees

(* C16, as stated, for query: a query with k < 1, k > n_samples or
   votes_required outside [1, n_trees] is rejected before any entry of the
   output buffers is written. *)
C16_Original ==
  (call.op = "query" /\ InvalidQuery) =>
    /\ \A i \in DOMAIN call.out : call.out[i] = Uninit
    /\ \A i \in DOMAIN call.out_distances : call.out_distances[i] = Uninit

----------------------------------------------------------------------------
\* The positions of the index vector grow_subtree dereferences for the split
\* value of a node entered with [begin, end): *(mid - 1) when n is odd, the
\* range of max_element, *left_it and *mid when n is even.
SplitReads(begin, end) ==
  IF (end - begin) % 2 = 1
    THEN {Mid(begin, end) - 1}
    ELSE (begin..(Mid(begin, end) - 1)) \cup {Mid(begin, end)}

(* C18, as stated: grow with 2^depth > n_samples completes, and at every node
   grow_subtree reads projected coordinates only of points inside the node's
   own index range [begin, end). *)
C18_Original ==
  (Grown /\ Pow2(index.depth) > n_samples) =>
    \A t \in Trees : \A i \in InternalNodes :
      SplitReads(NodeBegin(t, i), NodeEnd(t, i)) \subseteq NodeBegin(t, i)..(NodeEnd(t, i) - 1)

----------------------------------------------------------------------------
\* The forest cut down to its first n_trees trees and depth levels, as
\* subset_trees and delete_extra_trees cut it to the optimal parameters.
TrimmedTo(self, n_trees, depth) ==
  [self EXCEPT !.n_trees = n_trees, !.depth = depth,
               !.n_pool = depth * n_trees, !.n_array = Pow2(depth + 1),
               !.tree_leaves = SubSeq(@, 1, n_trees),
               !.split_points = TopLeft(@, Pow2(depth + 1), n_trees),
               !.node_ranges = TopLeft(@, Pow2(depth + 1), n_trees),
               !.leaf_first_indices = At(self.leaf_first_indices_all, depth),
               !.sparse_random_matrix =
                  IF self.density < 100 THEN TrimRows(@, n_trees, depth, self.depth) ELSE @,
               !.dense_random_matrix =
                  IF self.density < 100 THEN @ ELSE TrimRows(@, n_trees, depth, self.depth)]

\* What query(q, k, v) counts and elects on the forest trimmed to (t, d).
ElectedOn(t, d, v) == query(TrimmedTo(index, t, d), X, call.q, index.k, v)

(* C19: for a query and every depth d, vote threshold v and number of trees
   t, the candidate-set tally (v, t) of count_elected at depth d is the number
   of points with at least v votes from the first t trees routed to depth d,
   which is the number of candidates query(q, k, v) elects on the forest
   trimmed to (t, d), and the recall tally (v, t) is the number of true k
   nearest neighbours among these points; the tallies of t trees are those of
   t - 1 trees plus what tree t adds. *)
C19_Tallies ==
  call.op = "count_elected" =>
    \A d \in index.depth_min..DepthMax, t \in 1..TreesMax, v \in 1..index.votes_max :
      LET cs == At(At(At(call.cs_sizes, d - index.depth_min), t - 1), v - 1)
          rc == At(At(At(call.recalls, d - index.depth_min), t - 1), v - 1)
      IN \A r \in ElectedOn(t, d, v) :
           LET points == {p \in 0..(Len(X) - 1) : At(r.votes, p) >= v}
           IN /\ cs = Cardinality(points)
              /\ cs = r.n_elected
              /\ rc = Cardinality({p \in points : \E j \in 1..Len(call.exact) : call.exact[j] = p})
              /\ t > 1 => cs >= At(At(At(call.cs_sizes, d - index.depth_min), t - 2), v - 1)

\* At depth 1 of a forest grown with two levels, the second tree adds a
\* candidate to those of the first, and a point has the votes of both trees.
C19_Witness ==
  /\ call.op = "count_elected"
  /\ TreesMax = 2
  /\ DepthMax = 2
  /\ index.depth_min = 1
  /\ index.votes_max = 2
  /\ call.cs_sizes[1][2][1] > call.cs_sizes[1][1][1]
  /\ call.cs_sizes[1][2][2] >= 1
  /\ call.recalls[1][2][1] > call.recalls[1][2][2]

----------------------------------------------------------------------------
\* par is within the ranges the profiled forest index was grown with.
InRange(par) ==
  /\ 1 <= par.n_trees /\ par.n_trees <= TreesMax
  /\ index.depth_min <= par.depth /\ par.depth <= DepthMax
  /\ 1 <= par.votes /\ par.votes <= par.n_trees /\ par.votes <= index.votes_max

\* self holds the optimal parameters of a feasible target and is cut to them.
CutToOptimal(self) ==
  /\ InRange(self.optimal_parameters)
  /\ self.n_trees = self.optimal_parameters.n_trees
  /\ self.depth = self.optimal_parameters.depth
  /\ self.votes = self.optimal_parameters.votes

(* C20: every Parameters record the autotuner enumerates, hence every entry of
   the frontier and the (n_trees, depth, votes) of a forest after a feasible
   subset_trees or delete_extra_trees, has 1 <= n_trees <= trees_max,
   depth_min <= depth <= depth_max and 1 <= votes <= min(n_trees, votes_max);
   so the autotuned query on such a forest calls query with
   1 <= votes_required <= n_trees. *)
C20_ParameterRanges ==
  Profiled =>
    /\ \A i \in 1..Len(index.pars) : InRange(index.pars[i])
    /\ \A i \in 1..Len(index.opt_pars) : InRange(index.opt_pars[i])
    /\ index.optimal_parameters.n_trees > 0 => CutToOptimal(index)
    /\ index2.optimal_parameters.n_trees > 0 => CutToOptimal(index2)
    /\ \A self \in {index, index2} :
         (call.op = "autotuned_query" /\ self.optimal_parameters.n_trees > 0)
           => (1 <= self.votes /\ self.votes <= self.n_trees)

\* An autotuned query on a forest cut to two trees and one level out of a
\* parent whose pars holds a record with two votes.
C20_Witness ==
  /\ Profiled
  /\ call.op = "autotuned_query"
  /\ call.on = "index2"
  /\ index2.optimal_parameters.n_trees = 2
  /\ index2.depth = 1
  /\ \E i \in 1..Len(index.pars) : index.pars[i].votes = 2

----------------------------------------------------------------------------
\* Every worker of the parallel region has returned.
Joined == call.op = "parallel" /\ \A t \in 1..index.n_trees : call.stacks[t] = <<>>

(* C21: in the parallel region of grow the worker of tree t writes only
   column t of split_points and tree_leaves[t], so that under every
   interleaving of the workers the forest the region ends with is one that
   the sequential build of the trees 0 .. n_trees-1 gives. *)
C21_Parallel ==
  [][call.op = "parallel" =>
       /\ \A t \in 1..index.n_trees :
            call'.stacks[t] = call.stacks[t] =>
              /\ index'.split_points[t] = index.split_points[t]
              /\ index'.tree_leaves[t] = index.tree_leaves[t]
       /\ (\A t \in 1..index.n_trees : call'.stacks[t] = <<>>) =>
            index' \in grow(Mrpt, X, index.n_trees, index.depth, index.density)]_vars

\* Two workers have built trees with different split points, and the last
\* step was taken by the worker of the first tree.
C21_Witness ==
  /\ Joined
  /\ index.n_trees = 2
  /\ index.depth = 1
  /\ index.split_points[1] # index.split_points[2]
  /\ index.tree_leaves[1] # index.tree_leaves[2]

(* C22: when out_n_elected is not null, the variable it points to holds the
   size of the candidate set after query returns, whatever it held before.
   (The statement of the claim; the code adds to the variable.) *)
C22_Original ==
  call.op = "query" => call.out_n_elected = call.n_elected

(* C23: for every forest an object can hold and every query point, the leaf
   l a tree routes the point to satisfies 0 <= l < 2^depth and
   leaf_first_indices[l] and leaf_first_indices[l + 1] are elements of the
   vector; and n_elected of a query is at most
   n_trees * (n_samples / 2^depth + 1). (The statement of the claim.) *)
C23_Original ==
  /\ \A self \in {index, index2}, q \in Points :
       \A t \in 1..self.n_trees :
         LET l == FoundLeaves(self, ProjectedQuery(self, q))[t]
         IN /\ 0 <= l
            /\ l < Pow2(self.depth)
            /\ l + 1 < Len(self.leaf_first_indices)
  /\ call.op = "query" =>
       call.n_elected <= index.n_trees * (Len(X) \div Pow2(index.depth) + 1)

(* C24: after any sequence of grow and load calls on an object,
   leaf_first_indices is leaf_first_indices_all[depth] and is the array of
   the first leaf indices of the depth the object has: 2^depth + 1 entries,
   the last one n_samples. (The statement of the claim.) *)
C24_Original ==
  \A self \in {index, index2} :
    self.n_trees > 0 =>
      /\ self.leaf_first_indices = At(self.leaf_first_indices_all, self.depth)
      /\ Len(self.leaf_first_indices) = Pow2(self.depth) + 1
      /\ At(self.leaf_first_indices, Pow2(self.depth)) = Len(X)

\* tested_trees of fit_times after its first loop: the list it starts with and
\* the multiples i * incr it appends, for a forest of n_trees trees.
sampled_trees(n_trees) ==
  LET n_tested_trees == IF n_trees > 10 THEN 10 ELSE n_trees
      incr == n_trees \div n_tested_trees
  IN tested_trees \cup {i * incr : i \in 1..n_tested_trees}

(* C25: during fit_times every tree count t that cs_sizes is looked up with,
   or that vote is run with, satisfies 1 <= t <= trees_max, for every
   trees_max >= 1. (The statement of the claim.) *)
C25_Original ==
  Profiled => \A t \in sampled_trees(TreesMax) : 1 <= t /\ t <= TreesMax

(* C26: every delete_extra_trees call of a sequence of calls on a profiled
   forest leaves n_trees and depth no larger than they were, and the forest
   consistent: tree_leaves[t] a permutation of 0 .. n_samples-1 for every
   t < n_trees, split_points of 2^(depth+1) rows and n_trees columns, and a
   random matrix of n_trees * depth rows. (The statement of the claim.) *)
C26_Original ==
  [][call'.op = "delete_extra_trees" =>
       /\ index'.n_trees <= index.n_trees
       /\ index'.depth <= index.depth
       /\ Len(index'.tree_leaves) = index'.n_trees
       /\ \A t \in 1..index'.n_trees :
            /\ Len(index'.tree_leaves[t]) = Len(X)
            /\ Range(index'.tree_leaves[t]) = 0..(Len(X) - 1)
       /\ Len(index'.split_points) = index'.n_trees
       /\ \A t \in 1..index'.n_trees : Len(index'.split_points[t]) = Pow2(index'.depth + 1)
       /\ Len(RandomMatrix(index')) = index'.n_trees * index'.depth]_vars

====
